---- MODULE Spec2Model ----
(***************************************************************************)
(* The 21-state cellular automaton of src/src/Mirror/2.5D.py: the state    *)
(* table, the weight -> state lookup table and update_grid, applied to a   *)
(* small toroidal grid.                                                    *)
(***************************************************************************)
EXTENDS Integers, Sequences, FiniteSets, TLC

VARIABLES grid, arg, old, gen, pc, running, seen, screen, frame, initial

vars == <<grid, arg, old, gen, pc, running, seen, screen, frame, initial>>

(* ------------------------------ bounds --------------------------------- *)
\* grid.shape of the model's grids (GRID_ROWS x GRID_COLS in the program)
Rows == 3
Cols == 3
\* number of update_grid calls a behaviour makes
MaxGen == 2
\* length of the longest list pygame.event.get() returns
MaxEvents == 2

(* --------------------------- the state table --------------------------- *)
NULL_IDX == 18
NILL_IDX == 19
NA_IDX == 20

\* weights[i + 1] is states[i]["weight"]
weights ==
  << <<1, 0, 0>>, <<2, 0, 1>>, <<2, 1, 1>>, <<2, 1, 0>>, <<0, 2, 1>>,
     <<1, 2, 1>>, <<0, 1, 0>>, <<0, 1, 1>>, <<1, 0, 2>>, <<2, 1, 2>>,
     <<0, 0, 1>>, <<0, 1, 2>>, <<1, 1, 2>>, <<1, 0, 1>>, <<1, 2, 0>>,
     <<1, 2, 2>>, <<1, 1, 0>>, <<2, 2, 1>>,
     <<0, 0, 0>>, <<2, 2, 2>>, <<1, 1, 1>> >>

num_states == Len(weights)

StateIdx == 0 .. (num_states - 1)
Ordinary == StateIdx \ {NULL_IDX, NILL_IDX, NA_IDX}

RowIdx == 0 .. (Rows - 1)
ColIdx == 0 .. (Cols - 1)

\* a negative index taken as the first element
PyIndex_clamped(i, n) == IF i < 0 THEN 0 ELSE i

\* NumPy indexing of an axis of length n: a negative index counts from the end
PyIndex(i, n) == IF i < 0 THEN i + n ELSE i

\* NumPy's bounds check of an index i into an axis of length n; an index that
\* fails it raises IndexError
index_ok(i, n) == (0 - n) <= i /\ i < n

\* the values NumPy accepts as an index into an axis of length num_states
Indexable == (0 - num_states) .. (num_states - 1)

\* weights[s] for a grid entry s
WeightOf == [s \in Indexable |-> weights[PyIndex(s, num_states) + 1]]

SetMax(S) == CHOOSE m \in S : \A x \in S : x <= m

\* the table starts at -1 everywhere; the loop over enumerate(states) then
\* stores idx at each state's weight, a later state overwriting an earlier one
\* the table filled with idx + 1
lookup_off_by_one ==
  [a \in 0 .. 2, b \in 0 .. 2, c \in 0 .. 2 |->
     LET hits == {idx \in StateIdx : weights[idx + 1] = <<a, b, c>>}
     IN  IF hits = {} THEN -1 ELSE SetMax(hits) + 1]

\* the table starting at the last state's index instead of -1
lookup_last_default ==
  [a \in 0 .. 2, b \in 0 .. 2, c \in 0 .. 2 |->
     LET hits == {idx \in StateIdx : weights[idx + 1] = <<a, b, c>>}
     IN  IF hits = {} THEN num_states - 1 ELSE SetMax(hits)]

lookup ==
  [a \in 0 .. 2, b \in 0 .. 2, c \in 0 .. 2 |->
     LET hits == {idx \in StateIdx : weights[idx + 1] = <<a, b, c>>}
     IN  IF hits = {} THEN -1 ELSE SetMax(hits)]

(* ------------------------------ update_grid ---------------------------- *)
offsets ==
  << <<-1, -1>>, <<-1, 0>>, <<-1, 1>>,
     <<0, -1>>,  <<0, 0>>,  <<0, 1>>,
     <<1, -1>>,  <<1, 0>>,  <<1, 1>> >>

\* np.where(d == -1, a_arr, np.where(d == 0, b_arr, c_arr)) at one cell
sel(d, w) == IF d = -1 THEN w[1] ELSE IF d = 0 THEN w[2] ELSE w[3]

RECURSIVE SumTo(_, _)
SumTo(f, n) == IF n = 0 THEN 0 ELSE f[n] + SumTo(f, n - 1)

\* hor * ver for offsets[n] = (di, dj) at a cell that holds s: both are taken
\* on the cell's own weight
hor_ver ==
  [s \in Indexable |-> [n \in 1 .. Len(offsets) |->
     sel(offsets[n][2], WeightOf[s]) * sel(offsets[n][1], WeightOf[s])]]

\* the coefficient taken on the weight of the neighbour that offsets[n] rolls in
coeff_of_neighbour(g, r, c, n) ==
  hor_ver[g[(r - offsets[n][1]) % Rows][(c - offsets[n][2]) % Cols]][n]

\* coeffs[n][r, c]
coeff(g, r, c, n) == hor_ver[g[r][c]][n]

\* np.sum(coeffs, axis=0) at a cell that holds s
sum_coeffs == [s \in Indexable |-> SumTo(hor_ver[s], Len(offsets))]

\* the sum of the coefficients of the 8 neighbours, the centre's left out
total_filter_8(g, r, c) == sum_coeffs[g[r][c]] - hor_ver[g[r][c]][5]

total_filter(g, r, c) == sum_coeffs[g[r][c]]

\* np.roll with the edges clamped instead of wrapped
rolled_clamped(g, di, dj, r, c) ==
  LET rr == IF r - di < 0 THEN 0 ELSE IF r - di > Rows - 1 THEN Rows - 1 ELSE r - di
      cc == IF c - dj < 0 THEN 0 ELSE IF c - dj > Cols - 1 THEN Cols - 1 ELSE c - dj
  IN  g[rr][cc]

\* np.roll with the shifts negated
rolled_negated(g, di, dj, r, c) == g[(r + di) % Rows][(c + dj) % Cols]

\* np.roll(np.roll(grid, shift=di, axis=0), shift=dj, axis=1)[r, c]
rolled(g, di, dj, r, c) == g[(r - di) % Rows][(c - dj) % Cols]

\* the sum over the 8 neighbours only, the centre left out
weighted_sum_8(g, r, c, k) ==
  SumTo([n \in 1 .. Len(offsets) |->
           IF offsets[n] = <<0, 0>> THEN 0
           ELSE coeff(g, r, c, n)
                  * WeightOf[rolled(g, offsets[n][1], offsets[n][2], r, c)][k]],
        Len(offsets))

weighted_sum(g, r, c, k) ==
  SumTo([n \in 1 .. Len(offsets) |->
           coeff(g, r, c, n)
             * WeightOf[rolled(g, offsets[n][1], offsets[n][2], r, c)][k]],
        Len(offsets))

\* rounding with ties going up
rint_half_up(n, d) ==
  LET q == n \div d
      m == n % d
  IN  IF 2 * m < d THEN q ELSE q + 1

\* np.rint(n / d) for integers n >= 0, d > 0: nearest integer, ties to even
rint(n, d) ==
  LET q == n \div d
      m == n % d
  IN  IF 2 * m < d THEN q
      ELSE IF 2 * m > d THEN q + 1
      ELSE IF q % 2 = 0 THEN q ELSE q + 1

\* the fallback for total_filter = 0 being the weight (1, 1, 1)
new_components_grey(g, r, c) ==
  LET tf == total_filter(g, r, c)
  IN  [k \in 1 .. 3 |->
         IF tf # 0 THEN rint(weighted_sum(g, r, c, k), tf) ELSE 1]

new_components(g, r, c) ==
  LET tf == total_filter(g, r, c)
  IN  [k \in 1 .. 3 |->
         IF tf # 0 THEN rint(weighted_sum(g, r, c, k), tf)
                   ELSE WeightOf[g[r][c]][k]]

\* lookup[...] with NumPy indexing on each of the three axes
lookup_at(t) == lookup[PyIndex(t[1], 3), PyIndex(t[2], 3), PyIndex(t[3], 3)]

new_state_default(g) ==
  [r \in RowIdx |-> [c \in ColIdx |-> lookup_at(new_components(g, r, c))]]

\* the twist without its + 1
twist_plain(g, r, c) == [k \in 1 .. 3 |-> new_components(g, r, c)[k] % 3]

twist(g, r, c) == [k \in 1 .. 3 |-> (new_components(g, r, c)[k] + 1) % 3]

\* new_grid being the argument itself: the assignment writes both
setitem_inplace(bufs, r, c, v) ==
  LET a == [i \in RowIdx |-> [j \in ColIdx |->
              IF i = r /\ j = c THEN v ELSE bufs.new_grid[i][j]]]
  IN  [grid |-> a, new_grid |-> a]

\* The two arrays update_grid works on: bufs.grid is the argument, bufs.new_grid
\* the array it returns. An assignment new_grid[...] = v writes the latter.
setitem(bufs, r, c, v) ==
  [grid |-> bufs.grid,
   new_grid |-> [i \in RowIdx |-> [j \in ColIdx |->
                   IF i = r /\ j = c THEN v ELSE bufs.new_grid[i][j]]]]

\* new_grid[mask] = vals[mask] for a boolean mask, cell by cell in row-major order
RECURSIVE masked_assign(_, _, _, _)
masked_assign(bufs, mask, vals, n) ==
  IF n = Rows * Cols THEN bufs
  ELSE LET r == n \div Cols
           c == n % Cols
       IN  masked_assign(IF mask[r][c] THEN setitem(bufs, r, c, vals[r][c]) ELSE bufs,
                         mask, vals, n + 1)

null_mask(g) == [r \in RowIdx |-> [c \in ColIdx |-> g[r][c] = NULL_IDX]]
na_mask(g) == [r \in RowIdx |-> [c \in ColIdx |-> g[r][c] = NA_IDX]]

\* np.argwhere(grid == NILL_IDX): the Nill cells in row-major order
RECURSIVE argwhere_from(_, _)
argwhere_from(g, n) ==
  IF n = Rows * Cols THEN << >>
  ELSE LET r == n \div Cols
           c == n % Cols
       IN  IF g[r][c] = NILL_IDX
             THEN << <<r, c>> >> \o argwhere_from(g, n + 1)
             ELSE argwhere_from(g, n + 1)

\* np.argwhere(grid == NULL_IDX)
RECURSIVE argwhere_null_from(_, _)
argwhere_null_from(g, n) ==
  IF n = Rows * Cols THEN << >>
  ELSE LET r == n \div Cols
           c == n % Cols
       IN  IF g[r][c] = NULL_IDX
             THEN << <<r, c>> >> \o argwhere_null_from(g, n + 1)
             ELSE argwhere_null_from(g, n + 1)

nill_indices_null(g) == argwhere_null_from(g, 0)

\* np.argwhere(grid != NULL_IDX)
RECURSIVE argwhere_live_from(_, _)
argwhere_live_from(g, n) ==
  IF n = Rows * Cols THEN << >>
  ELSE LET r == n \div Cols
           c == n % Cols
       IN  IF g[r][c] # NULL_IDX
             THEN << <<r, c>> >> \o argwhere_live_from(g, n + 1)
             ELSE argwhere_live_from(g, n + 1)

nill_indices_live(g) == argwhere_live_from(g, 0)

nill_indices(g) == argwhere_from(g, 0)

\* the list choices built for the Nill cell (y, x)
RECURSIVE choices_from(_, _, _, _)
choices_from(g, y, x, n) ==
  IF n > Len(offsets) THEN << >>
  ELSE LET ny == (y + offsets[n][1]) % Rows
           nx == (x + offsets[n][2]) % Cols
       IN  IF g[ny][nx] # NULL_IDX
             THEN <<g[ny][nx]>> \o choices_from(g, y, x, n + 1)
             ELSE choices_from(g, y, x, n + 1)

\* the list built with the test grid[ny, nx] != NILL_IDX
RECURSIVE choices_not_nill_from(_, _, _, _)
choices_not_nill_from(g, y, x, n) ==
  IF n > Len(offsets) THEN << >>
  ELSE LET ny == (y + offsets[n][1]) % Rows
           nx == (x + offsets[n][2]) % Cols
       IN  IF g[ny][nx] # NILL_IDX
             THEN <<g[ny][nx]>> \o choices_not_nill_from(g, y, x, n + 1)
             ELSE choices_not_nill_from(g, y, x, n + 1)

choices_not_nill(g, y, x) == choices_not_nill_from(g, y, x, 1)

\* the list built from the 8 neighbours only, offset (0, 0) skipped
RECURSIVE choices_neighbours_from(_, _, _, _)
choices_neighbours_from(g, y, x, n) ==
  IF n > Len(offsets) THEN << >>
  ELSE LET ny == (y + offsets[n][1]) % Rows
           nx == (x + offsets[n][2]) % Cols
       IN  IF g[ny][nx] # NULL_IDX /\ offsets[n] # <<0, 0>>
             THEN <<g[ny][nx]>> \o choices_neighbours_from(g, y, x, n + 1)
             ELSE choices_neighbours_from(g, y, x, n + 1)

choices_neighbours(g, y, x) == choices_neighbours_from(g, y, x, 1)

choices(g, y, x) == choices_from(g, y, x, 1)

\* the values random.choice(seq) can return
random_choice(seq) == {seq[i] : i \in 1 .. Len(seq)}

\* the loop over nill_indices; the result is the set of (grid, new_grid) pairs
\* it can end with, one for each outcome of the random draws
RECURSIVE nill_loop(_, _)
nill_loop(bufs, idxs) ==
  IF idxs = << >> THEN {bufs}
  ELSE LET y == Head(idxs)[1]
           x == Head(idxs)[2]
           ch == choices(bufs.grid, y, x)
       IN  IF ch # << >>
             THEN UNION {nill_loop(setitem(bufs, y, x, v), Tail(idxs)) :
                           v \in random_choice(ch)}
             ELSE nill_loop(setitem(bufs, y, x, bufs.grid[y][x]), Tail(idxs))

\* new_grid[na_mask] = lookup[twist[:, 0], twist[:, 1], twist[:, 2]]
twisted(g) ==
  [r \in RowIdx |-> [c \in ColIdx |->
     IF g[r][c] = NA_IDX THEN lookup_at(twist(g, r, c)) ELSE -1]]

\* update_grid(grid): every (argument after the call, returned array) pair
update_grid(g) ==
  LET b0 == [grid |-> g, new_grid |-> new_state_default(g)]
      b1 == masked_assign(b0, null_mask(b0.grid), b0.grid, 0)
      b2 == masked_assign(b1, na_mask(b1.grid), twisted(b1.grid), 0)
  IN  nill_loop(b2, nill_indices(b2.grid))

(* ------------------------------ behaviours ----------------------------- *)
\* A grid that is bg everywhere except for the cell (1, 1), which holds ce, and
\* the n-th cell of its 3x3 neighbourhood, which holds ot.
Pattern(bg, ce, ot, n) ==
  [r \in RowIdx |-> [c \in ColIdx |->
     IF r = 1 /\ c = 1 THEN ce
     ELSE IF r = (1 + offsets[n][1]) % Rows /\ c = (1 + offsets[n][2]) % Cols THEN ot
     ELSE bg]]

\* np.random.randint with both bounds inclusive
randint_inclusive(low, high) == low .. high

\* the values np.random.randint(low, high) draws: high is exclusive
randint(low, high) == low .. (high - 1)

\* The initial grids (np.random.randint can draw any of them): every state
\* alone on every background that is neither Nill nor N/A, the 21 uniform
\* grids, every pair of states side by side (in each of the 8 directions) on a
\* Null background, and an N/A cell with any one neighbour on every ordinary
\* background.
InitGrids ==
  LET drawn == randint(0, num_states)
  IN  {Pattern(bg, ce, bg, 1) : bg \in drawn \ {NILL_IDX, NA_IDX}, ce \in drawn}
        \cup {Pattern(s, s, s, 1) : s \in drawn}
        \cup {Pattern(NULL_IDX, ce, ot, n) :
                ce \in drawn, ot \in drawn, n \in 1 .. Len(offsets)}
        \cup {Pattern(bg, NA_IDX, ot, n) :
                bg \in Ordinary, ot \in drawn, n \in 1 .. Len(offsets)}

\* update_grid called over and over on its own result, the rest of main left
\* out: the position stays at the call and nothing is drawn
Init ==
  /\ grid \in InitGrids
  /\ arg = grid
  /\ old = grid
  /\ gen = 0
  /\ pc = "update"
  /\ running = TRUE
  /\ seen = FALSE
  /\ screen = <<>>
  /\ frame = 0
  /\ initial = <<>>

\* main: grid = update_grid(grid)
Step ==
  /\ gen < MaxGen
  /\ \E bufs \in update_grid(grid) :
       /\ grid' = bufs.new_grid
       /\ arg' = bufs.grid
  /\ old' = grid
  /\ gen' = gen + 1
  /\ UNCHANGED <<pc, running, seen, screen, frame, initial>>

Next == Step

Spec == Init /\ [][Next]_vars

(* ----------------------------- the main loop --------------------------- *)
\* The events pygame.event.get() can return, by type and key (an event that is
\* not a KEYDOWN has no key attribute).
Events ==
  { [type |-> "QUIT", key |-> "none"],
    [type |-> "KEYDOWN", key |-> "K_ESCAPE"],
    [type |-> "KEYDOWN", key |-> "K_SPACE"],
    [type |-> "MOUSEMOTION", key |-> "none"] }

EventLists == UNION {[1 .. n -> Events] : n \in 0 .. MaxEvents}

\* the test with the Escape key left out
event_is_quit_only(e) == e.type = "QUIT"

\* event.type == QUIT or (event.type == KEYDOWN and event.key == K_ESCAPE)
event_is_quit(e) ==
  e.type = "QUIT" \/ (e.type = "KEYDOWN" /\ e.key = "K_ESCAPE")

\* the for loop over the events: the value of running after events i.. of evs
RECURSIVE handle_events(_, _, _)
handle_events(evs, i, run) ==
  IF i > Len(evs) THEN run
  ELSE handle_events(evs, i + 1, IF event_is_quit(evs[i]) THEN FALSE ELSE run)

\* the state whose colour and height each tile is drawn with:
\* states[state_idx] and height_map[state_idx] for state_idx = grid[row, col]
drawn_states(g) ==
  [r \in RowIdx |-> [c \in ColIdx |-> PyIndex(g[r][c], num_states)]]

\* the initial grids of the main loop: np.random.randint can draw any grid; the
\* model takes every state alone on a Red background
MainGrids == {Pattern(0, ce, 0, 1) : ce \in randint(0, num_states)}

\* main up to running = True
InitMain ==
  /\ grid \in MainGrids
  /\ arg = grid
  /\ old = grid
  /\ gen = 0
  /\ pc = "while"
  /\ running = TRUE
  /\ seen = FALSE
  /\ screen = <<>>
  /\ frame = 0
  /\ initial = grid

\* while running: the loop is entered (the model stops after MaxGen iterations)
LoopEnter ==
  /\ pc = "while"
  /\ running
  /\ gen < MaxGen
  /\ pc' = "events"
  /\ UNCHANGED <<grid, arg, old, gen, running, seen, screen, frame, initial>>

\* while running: the loop is left
LoopExit ==
  /\ pc = "while"
  /\ ~running
  /\ pc' = "quit"
  /\ UNCHANGED <<grid, arg, old, gen, running, seen, screen, frame, initial>>

\* for event in pygame.event.get(): ...; seen records that one of the events
\* received so far was a QUIT or an Escape key
HandleEvents ==
  /\ pc = "events"
  /\ \E evs \in EventLists :
       /\ running' = handle_events(evs, 1, running)
       /\ seen' = (seen \/ \E i \in 1 .. Len(evs) :
                              evs[i].type = "QUIT" \/ evs[i].key = "K_ESCAPE")
  /\ pc' = "update"
  /\ UNCHANGED <<grid, arg, old, gen, screen, frame, initial>>

\* grid = update_grid(grid)
UpdateCall ==
  /\ pc = "update"
  /\ \E bufs \in update_grid(grid) :
       /\ grid' = bufs.new_grid
       /\ arg' = bufs.grid
  /\ old' = grid
  /\ gen' = gen + 1
  /\ pc' = "draw"
  /\ UNCHANGED <<running, seen, screen, frame, initial>>

\* screen.fill, the loop over the cells, display.flip and clock.tick: every
\* tile is drawn from grid[row, col], which is only read
Draw ==
  /\ pc = "draw"
  /\ screen' = drawn_states(grid)
  /\ frame' = frame + 1
  /\ pc' = "while"
  /\ UNCHANGED <<grid, arg, old, gen, running, seen, initial>>

\* pygame.quit(); sys.exit()
Quit ==
  /\ pc = "quit"
  /\ pc' = "done"
  /\ UNCHANGED <<grid, arg, old, gen, running, seen, screen, frame, initial>>

NextMain == LoopEnter \/ LoopExit \/ HandleEvents \/ UpdateCall \/ Draw \/ Quit

\* Every statement of main returns, so each step that can be taken is taken.
\* update_grid returns a grid for every grid, so UpdateCall is enabled exactly
\* when pc = "update"; its weak fairness is written with that in place of
\* ENABLED <<UpdateCall>>_vars.
SpecMain ==
  /\ InitMain
  /\ [][NextMain]_vars
  /\ WF_vars(LoopEnter) /\ WF_vars(LoopExit) /\ WF_vars(HandleEvents)
  /\ WF_vars(Draw) /\ WF_vars(Quit)
  /\ ([]<>(pc # "update") \/ []<><<UpdateCall>>_vars)

(* ------------------------------ properties ----------------------------- *)
\* the 8 neighbours of a cell: offsets[n] for n in NbrIdx, the centre left out
NbrIdx == {n \in 1 .. Len(offsets) : offsets[n] # <<0, 0>>}
nbr(g, r, c, n) == g[(r + offsets[n][1]) % Rows][(c + offsets[n][2]) % Cols]

Uniform(g, s) == \A r \in RowIdx, c \in ColIdx : g[r][c] = s
HasNill(g) == \E r \in RowIdx, c \in ColIdx : g[r][c] = NILL_IDX

\* g moved by (dr, dc) with wrap-around
Shift(g, dr, dc) ==
  [r \in RowIdx |-> [c \in ColIdx |-> g[(r - dr) % Rows][(c - dc) % Cols]]]

RED == 0
BLUE == 10

\* C1: after any number of update_grid steps from a grid of entries in 0..20,
\* the grid has Rows x Cols entries and every entry is a state index in 0..20.
C1_AllValid ==
  /\ DOMAIN grid = RowIdx
  /\ \A r \in RowIdx :
       /\ DOMAIN grid[r] = ColIdx
       /\ \A c \in ColIdx : grid[r][c] \in StateIdx

\* C2: a cell that holds Null holds Null after the next update_grid, whatever
\* its neighbours are, so the set of Null cells never shrinks.
C2_NullAbsorbing ==
  [][\A r \in RowIdx, c \in ColIdx :
       grid[r][c] = NULL_IDX => grid'[r][c] = NULL_IDX]_vars

\* a Null cell with a neighbour that is not Null has been through a step
C2_Witness ==
  /\ gen >= 1
  /\ \E r \in RowIdx, c \in ColIdx :
       /\ old[r][c] = NULL_IDX
       /\ grid[r][c] = NULL_IDX
       /\ \E n \in NbrIdx : nbr(old, r, c, n) # NULL_IDX

\* C3: a Nill cell with a non-Null cell among its 8 neighbours takes, for every
\* outcome of the draw, the state of one of those non-Null neighbours.
C3_NillTakesNeighbour ==
  \A r \in RowIdx, c \in ColIdx :
    (/\ gen >= 1
     /\ old[r][c] = NILL_IDX
     /\ \E n \in NbrIdx : nbr(old, r, c, n) # NULL_IDX)
    => \E n \in NbrIdx :
         /\ nbr(old, r, c, n) # NULL_IDX
         /\ grid[r][c] = nbr(old, r, c, n)

\* C4: a Nill cell whose 8 neighbours are all Null is Nill after update_grid,
\* for every outcome of the draw.
C4_NillAmongNull ==
  \A r \in RowIdx, c \in ColIdx :
    (/\ gen >= 1
     /\ old[r][c] = NILL_IDX
     /\ \A n \in NbrIdx : nbr(old, r, c, n) = NULL_IDX)
    => grid[r][c] = NILL_IDX

C4_Witness ==
  /\ gen >= 1
  /\ \E r \in RowIdx, c \in ColIdx :
       /\ old[r][c] = NILL_IDX
       /\ \A n \in NbrIdx : nbr(old, r, c, n) = NULL_IDX
       /\ grid[r][c] = NILL_IDX

\* C5: an N/A cell whose 8 neighbours all hold one ordinary state X of weight
\* (a, b, c) becomes the state of weight ((a+1)%3, (b+1)%3, (c+1)%3) whenever
\* some state has that weight.
C5_Twist ==
  \A r \in RowIdx, c \in ColIdx : \A X \in Ordinary :
    (/\ gen >= 1
     /\ old[r][c] = NA_IDX
     /\ \A n \in NbrIdx : nbr(old, r, c, n) = X)
    => LET t == [k \in 1 .. 3 |-> (weights[X + 1][k] + 1) % 3]
       IN  (\E s \in StateIdx : weights[s + 1] = t)
             => /\ grid[r][c] \in StateIdx
                /\ weights[grid[r][c] + 1] = t

C5_Witness ==
  /\ gen >= 1
  /\ \E r \in RowIdx, c \in ColIdx : \E X \in Ordinary :
       /\ old[r][c] = NA_IDX
       /\ \A n \in NbrIdx : nbr(old, r, c, n) = X
       /\ grid[r][c] \in StateIdx
       /\ grid[r][c] # X
       /\ weights[grid[r][c] + 1] = [k \in 1 .. 3 |-> (weights[X + 1][k] + 1) % 3]

\* C6: for each of the 18 ordinary states X, the grid whose every cell holds X
\* is unchanged by update_grid.
C6_UniformFixed ==
  \A X \in Ordinary : (gen >= 1 /\ Uniform(old, X)) => grid = old

C6_Witness ==
  /\ gen >= 1
  /\ \E X \in Ordinary : Uniform(old, X) /\ Uniform(grid, X)

\* C7: for a grid without Nill cells, update_grid of the grid shifted with
\* wrap-around by (dr, dc) is update_grid of the grid, shifted by (dr, dc); and
\* cell (0, 0) reads cell (Rows-1, Cols-1) as a diagonal neighbour: a Blue cell
\* there, whose only non-zero coefficient is the one of that neighbour, takes
\* the state of the cell at (Rows-1, Cols-1).
C7_ShiftCommutes ==
  (gen >= 1 /\ ~HasNill(old)) =>
    \A dr \in RowIdx, dc \in ColIdx :
      LET G == Shift(old, dr, dc)
      IN  /\ update_grid(G) = {[grid |-> G, new_grid |-> Shift(grid, dr, dc)]}
          /\ (G[0][0] = BLUE /\ G[Rows - 1][Cols - 1] \in StateIdx)
               => Shift(grid, dr, dc)[0][0] = G[Rows - 1][Cols - 1]

\* a step from a grid without Nill cells that is not uniform, one shift of which
\* has a Blue cell at (0, 0) and another state in the opposite corner
C7_Witness ==
  /\ gen >= 1
  /\ ~HasNill(old)
  /\ grid # old
  /\ \E dr \in RowIdx, dc \in ColIdx :
       LET G == Shift(old, dr, dc)
       IN  /\ G # old
           /\ G[0][0] = BLUE
           /\ G[Rows - 1][Cols - 1] \in StateIdx \ {BLUE, NULL_IDX}
           /\ Shift(grid, dr, dc)[0][0] = G[Rows - 1][Cols - 1]

\* the grid that is all Red except for the Blue cell (1, 1)
RedBlue == Pattern(RED, BLUE, RED, 1)
Border == {rc \in RowIdx \X ColIdx : rc # <<1, 1>>}

C10_ArgumentUnchanged == arg = old

\* a step that returned a grid different from its argument
C10_Witness ==
  /\ gen >= 1
  /\ grid # old
  /\ arg = old
  /\ \E r \in RowIdx, c \in ColIdx : old[r][c] \in {NILL_IDX, NA_IDX}

Valid(g) == \A r \in RowIdx, c \in ColIdx : g[r][c] \in StateIdx

\* C11: for a grid of entries in 0..20 update_grid raises nothing: every
\* rounded weight component and every twisted component is in {0, 1, 2}, so
\* every index into lookup and into weights passes the bounds check.
C11_NoIndexError ==
  Valid(grid) =>
    \A r \in RowIdx, c \in ColIdx :
      /\ index_ok(grid[r][c], num_states)
      /\ \A k \in 1 .. 3 :
           /\ new_components(grid, r, c)[k] \in 0 .. 2
           /\ index_ok(new_components(grid, r, c)[k], 3)
           /\ grid[r][c] = NA_IDX =>
                /\ twist(grid, r, c)[k] \in 0 .. 2
                /\ index_ok(twist(grid, r, c)[k], 3)

\* update_grid has returned from a grid of valid entries in which a cell's
\* average rounds up to 2 and an N/A cell's twist wraps a 2 around to 0
C11_Witness ==
  /\ gen >= 1
  /\ Valid(old)
  /\ \E r \in RowIdx, c \in ColIdx : \E k \in 1 .. 3 :
       /\ old[r][c] # NULL_IDX
       /\ weighted_sum(old, r, c, k) < 2 * total_filter(old, r, c)
       /\ new_components(old, r, c)[k] = 2
  /\ \E r \in RowIdx, c \in ColIdx : \E k \in 1 .. 3 :
       /\ old[r][c] = NA_IDX
       /\ new_components(old, r, c)[k] = 2
       /\ twist(old, r, c)[k] = 0

Triples == {<<a, b, c>> : a \in 0 .. 2, b \in 0 .. 2, c \in 0 .. 2}

\* C12: the 21 weight triples are pairwise distinct, lookup[weights[i]] = i for
\* every state index i, and exactly 6 of the 27 triples of {0,1,2}^3 map to -1.
\* (the tables are built once and never written: it holds in every generation)
C12_LookupInverse ==
  gen >= 0 =>
    /\ \A i \in StateIdx, j \in StateIdx : weights[i + 1] = weights[j + 1] => i = j
    /\ \A i \in StateIdx :
         lookup[weights[i + 1][1], weights[i + 1][2], weights[i + 1][3]] = i
    /\ Cardinality(Triples) = 27
    /\ Cardinality({t \in Triples : lookup[t[1], t[2], t[3]] = -1}) = 6

\* a step in which lookup gave one cell the state of its averaged weight and
\* another cell the -1 of a triple no state has
C12_Witness ==
  /\ gen >= 1
  /\ \E r \in RowIdx, c \in ColIdx :
       /\ old[r][c] \in Ordinary
       /\ grid[r][c] \in StateIdx \ {old[r][c]}
       /\ weights[grid[r][c] + 1] = new_components(old, r, c)
  /\ \E r \in RowIdx, c \in ColIdx : grid[r][c] = -1

\* C13: the grid created at startup has Rows x Cols entries, each a state
\* index in 0..20: the upper bound num_states of the draw is exclusive.
C13_InitialGridValid ==
  gen = 0 =>
    /\ DOMAIN grid = RowIdx
    /\ \A r \in RowIdx :
         /\ DOMAIN grid[r] = ColIdx
         /\ \A c \in ColIdx : 0 <= grid[r][c] /\ grid[r][c] <= 20

\* an initial grid that holds both ends of the drawn range
C13_Witness ==
  /\ gen = 0
  /\ \E r \in RowIdx, c \in ColIdx : grid[r][c] = 0
  /\ \E r \in RowIdx, c \in ColIdx : grid[r][c] = num_states - 1

\* the vote with the coefficient of offsets[n] = (di, dj) multiplying the
\* weight of the cell at ((r + di) % Rows, (c + dj) % Cols)
vote_at_offsets(g, r, c, k) ==
  SumTo([n \in 1 .. Len(offsets) |-> coeff(g, r, c, n) * WeightOf[nbr(g, r, c, n)][k]],
        Len(offsets))

\* C14: in the weighted vote of cell (r, c) the coefficient of offset (di, dj)
\* multiplies the weight of the cell at ((r + di) % Rows, (c + dj) % Cols), the
\* cell the Nill rule reads for that offset, in each of the three components;
\* so a cell that is not Null, Nill or N/A becomes the lookup of that average.
C14_VoteAtOffset ==
  gen >= 1 =>
    \A r \in RowIdx, c \in ColIdx :
      /\ \A k \in 1 .. 3 : weighted_sum(old, r, c, k) = vote_at_offsets(old, r, c, k)
      /\ old[r][c] \in Ordinary =>
           grid[r][c] =
             lookup_at([k \in 1 .. 3 |->
                          rint(vote_at_offsets(old, r, c, k), total_filter(old, r, c))])

\* the nine products of a weight (a, b, c), in the order of offsets
products(w) ==
  << w[1] * w[1], w[2] * w[1], w[3] * w[1],
     w[1] * w[2], w[2] * w[2], w[3] * w[2],
     w[1] * w[3], w[2] * w[3], w[3] * w[3] >>

\* C15: the coefficient of offset (di, dj) for a cell is sel(dj) * sel(di) with
\* sel(-1) = a, sel(0) = b, sel(1) = c taken on the cell's own weight (a, b, c);
\* it is an integer in 0..4 and is the same whatever the neighbours hold.
C15_CoefficientOwnWeight ==
  \A r \in RowIdx, c \in ColIdx :
    grid[r][c] \in StateIdx =>
      \A n \in 1 .. Len(offsets) :
        /\ coeff(grid, r, c, n) = products(weights[grid[r][c] + 1])[n]
        /\ coeff(grid, r, c, n) \in 0 .. 4
        /\ coeff(grid, r, c, n)
             = coeff(Pattern(grid[r][c], grid[r][c], grid[r][c], 1), r, c, n)

\* a step from a grid in which a cell of weight (2, 0, 1) has a neighbour of
\* another state: its coefficients run from 0 to 4
C15_Witness ==
  /\ gen >= 1
  /\ \E r \in RowIdx, c \in ColIdx :
       /\ old[r][c] = 1
       /\ \E n \in NbrIdx : nbr(old, r, c, n) \notin {1, NULL_IDX}
       /\ coeff(old, r, c, 1) = 4
       /\ coeff(old, r, c, 2) = 0
       /\ coeff(old, r, c, 3) = 2

Abs(x) == IF x < 0 THEN 0 - x ELSE x

\* C16: when total_filter is not 0, each new weight component is the integer
\* nearest to weighted_sum[k] / total_filter, an exact .5 going to the even
\* integer (0.5 -> 0, 1.5 -> 2).
C16_RoundHalfEven ==
  gen >= 1 =>
    \A r \in RowIdx, c \in ColIdx : \A k \in 1 .. 3 :
      LET tf == total_filter(old, r, c)
          ws == weighted_sum(old, r, c, k)
          v == new_components(old, r, c)[k]
      IN  tf # 0 =>
            /\ 2 * Abs(ws - v * tf) <= tf
            /\ 2 * Abs(ws - v * tf) = tf => v % 2 = 0
            /\ 2 * ws = tf => v = 0
            /\ 2 * ws = 3 * tf => v = 2

\* a step from a grid with a component of exactly 0.5 and one of exactly 1.5
C16_Witness ==
  /\ gen >= 1
  /\ \E r \in RowIdx, c \in ColIdx : \E k \in 1 .. 3 :
       /\ total_filter(old, r, c) # 0
       /\ 2 * weighted_sum(old, r, c, k) = total_filter(old, r, c)
       /\ new_components(old, r, c)[k] = 0
  /\ \E r \in RowIdx, c \in ColIdx : \E k \in 1 .. 3 :
       /\ total_filter(old, r, c) # 0
       /\ 2 * weighted_sum(old, r, c, k) = 3 * total_filter(old, r, c)
       /\ new_components(old, r, c)[k] = 2

\* C17: a cell whose total_filter is 0 gets its own current weight as its new
\* weight triple (no quotient is used), so the state looked up for it is its
\* current state, and that is its next state.
C17_ZeroFilterKeepsWeight ==
  gen >= 1 =>
    \A r \in RowIdx, c \in ColIdx :
      total_filter(old, r, c) = 0 =>
        /\ \A k \in 1 .. 3 : new_components(old, r, c)[k] = WeightOf[old[r][c]][k]
        /\ new_state_default(old)[r][c] = old[r][c]
        /\ grid[r][c] = old[r][c]

\* a cell of total_filter 0 with a neighbour of non-zero weight has been updated
C17_Witness ==
  /\ gen >= 1
  /\ \E r \in RowIdx, c \in ColIdx :
       /\ total_filter(old, r, c) = 0
       /\ \E n \in NbrIdx : WeightOf[nbr(old, r, c, n)] # <<0, 0, 0>>
       /\ grid[r][c] = old[r][c]

\* the weight triple update_grid looks up for a cell that is not Null or Nill
looked_up(g, r, c) ==
  IF g[r][c] = NA_IDX THEN twist(g, r, c) ELSE new_components(g, r, c)

NoStateHas(t) == \A s \in StateIdx : weights[s + 1] # t

Window(g, r, c) == [n \in 1 .. Len(offsets) |-> nbr(g, r, c, n)]

\* the rule of one cell, evaluated on its window w of the previous generation
\* alone (w[5] is the cell; the vote pairs the coefficient of offsets[n] with
\* the cell at the opposite offset, w[10 - n])
cell_components(w) ==
  LET tf == sum_coeffs[w[5]]
  IN  [k \in 1 .. 3 |->
         IF tf # 0
           THEN rint(SumTo([n \in 1 .. Len(offsets) |->
                              hor_ver[w[5]][n] * WeightOf[w[10 - n]][k]],
                           Len(offsets)), tf)
           ELSE WeightOf[w[5]][k]]

\* the states the cell can have in the next generation
cell_next(w) ==
  IF w[5] = NULL_IDX THEN {w[5]}
  ELSE IF w[5] = NILL_IDX
    THEN LET live == {w[n] : n \in 1 .. Len(offsets)} \ {NULL_IDX}
         IN  IF live = {} THEN {w[5]} ELSE live
  ELSE IF w[5] = NA_IDX
    THEN {lookup_at([k \in 1 .. 3 |-> (cell_components(w)[k] + 1) % 3])}
  ELSE {lookup_at(cell_components(w))}

\* g with every cell outside the 3x3 neighbourhood of (r, c) changed
ChangedOutside(g, r, c) ==
  [i \in RowIdx |-> [j \in ColIdx |->
     IF (i - r) % Rows \in {0, 1, Rows - 1} /\ (j - c) % Cols \in {0, 1, Cols - 1}
       THEN g[i][j]
       ELSE (g[i][j] + 1) % num_states]]

RECURSIVE OutcomeCount(_, _)
OutcomeCount(g, n) ==
  IF n = Rows * Cols THEN 1
  ELSE Cardinality(cell_next(Window(g, n \div Cols, n % Cols))) * OutcomeCount(g, n + 1)

RECURSIVE CellsOfRow(_, _, _)
CellsOfRow(h, r, c) ==
  IF c = Cols - 1 THEN c :> h[r][c]
  ELSE (c :> h[r][c]) @@ CellsOfRow(h, r, c + 1)

RECURSIVE CellsFrom(_, _)
CellsFrom(h, r) ==
  IF r = Rows - 1 THEN r :> CellsOfRow(h, r, 0)
  ELSE (r :> CellsOfRow(h, r, 0)) @@ CellsFrom(h, r + 1)

\* the grids reached from g by n successive calls of update_grid
RECURSIVE Successors(_, _)
Successors(g, n) ==
  IF n = 0 THEN {g}
  ELSE UNION {{CellsFrom(b.new_grid, 0) : b \in update_grid(h)} :
                h \in Successors(g, n - 1)}

\* between two frames the grid has been replaced once more than it was drawn
\* only while the new generation waits to be drawn, the grid is a result of
\* update_grid on the grid it replaced, and what is on the screen after frame n
\* is the n-th successor of the initial grid
C20_FrameIsGeneration ==
  /\ pc \in {"while", "events", "update", "quit", "done"} => gen = frame
  /\ pc = "draw" => gen = frame + 1
  /\ gen >= 1 => grid \in {b.new_grid : b \in update_grid(old)}
  /\ frame >= 1 /\ pc # "draw" =>
       /\ screen = drawn_states(grid)
       /\ grid \in Successors(initial, frame)

\* a step that replaces the grid replaces it once, remembers the grid it
\* replaced and draws nothing; a step that draws leaves the grid alone; after a QUIT or
\* Escape event the loop body is not entered again
C20_StepOrder ==
  /\ gen' # gen => gen' = gen + 1 /\ frame' = frame /\ old' = grid
  /\ frame' # frame =>
       /\ frame' = frame + 1 /\ gen = frame'
       /\ grid' = grid
       /\ screen' = drawn_states(grid)
  /\ gen' = gen => grid' = grid
  /\ seen => pc' # "events"

\* C20: each iteration of the main loop replaces the grid by update_grid(grid)
\* exactly once and then draws that generation without modifying it, so frame n
\* shows the n-th successor of the initial grid; once a QUIT or Escape event
\* has been seen no further iteration starts and the program terminates.
C20_MainLoop ==
  /\ []C20_FrameIsGeneration
  /\ [][C20_StepOrder]_vars
  /\ seen ~> (pc = "done")

\* the program has ended after a quit event that arrived in the second
\* iteration, whose generation was still computed and drawn
C20_Witness ==
  /\ pc = "done"
  /\ seen
  /\ frame = 2
  /\ grid # old
  /\ old # initial
  /\ screen = drawn_states(grid)

\* C21: over any sequence of update_grid steps from a grid of entries in 0..20,
\* every grid entry is -1 or a state index in 0..20.
C21_EntriesInRange ==
  \A r \in RowIdx, c \in ColIdx : grid[r][c] \in {-1} \cup StateIdx

\* a grid that holds -1 was stepped once more, and the result again holds -1
C21_Witness ==
  /\ gen >= 2
  /\ \E r \in RowIdx, c \in ColIdx : old[r][c] = -1
  /\ \E r \in RowIdx, c \in ColIdx : grid[r][c] = -1

\* the rounded plain mean of the weights of the 3x3 neighbourhood of (r, c)
plain_mean(g, r, c) ==
  [k \in 1 .. 3 |->
     rint(SumTo([n \in 1 .. Len(offsets) |-> WeightOf[nbr(g, r, c, n)][k]],
                Len(offsets)),
          Len(offsets))]

\* C22: a cell that holds -1 is processed as a cell of weight (1, 1, 1): its
\* nine coefficients are 1 and total_filter is 9, it is in none of the Null,
\* N/A and Nill masks, and its next state is the lookup, without twist, of the
\* rounded plain mean of its 3x3 neighbourhood; a Nill cell with a -1 cell in
\* its neighbourhood has -1 among its choices.
C22_SentinelCell ==
  gen >= 1 =>
    \A r \in RowIdx, c \in ColIdx :
      /\ old[r][c] = -1 =>
           /\ WeightOf[old[r][c]] = <<1, 1, 1>>
           /\ \A n \in 1 .. Len(offsets) : coeff(old, r, c, n) = 1
           /\ total_filter(old, r, c) = 9
           /\ ~null_mask(old)[r][c]
           /\ ~na_mask(old)[r][c]
           /\ \A i \in 1 .. Len(nill_indices(old)) : nill_indices(old)[i] # <<r, c>>
           /\ grid[r][c] = lookup_at(plain_mean(old, r, c))
      /\ (old[r][c] = NILL_IDX /\ \E n \in NbrIdx : nbr(old, r, c, n) = -1) =>
           -1 \in random_choice(choices(old, r, c))

\* a step from a grid with a -1 cell whose neighbourhood is not uniform, and in
\* which a Nill cell next to a -1 cell became -1
C22_Witness ==
  /\ gen >= 1
  /\ \E r \in RowIdx, c \in ColIdx :
       /\ old[r][c] = -1
       /\ \E n \in NbrIdx : nbr(old, r, c, n) \notin {-1, NA_IDX}
  /\ \E r \in RowIdx, c \in ColIdx :
       /\ old[r][c] = NILL_IDX
       /\ \E n \in NbrIdx : nbr(old, r, c, n) = -1
       /\ grid[r][c] = -1

C24_RedBlueCopy ==
  gen >= 1 =>
    \A r \in RowIdx, c \in ColIdx :
      LET below == old[(r + 1) % Rows][(c + 1) % Cols]
          above == old[(r - 1) % Rows][(c - 1) % Cols]
      IN  /\ (old[r][c] = RED /\ below \in StateIdx) => grid[r][c] = below
          /\ (old[r][c] = BLUE /\ above \in StateIdx) => grid[r][c] = above

\* a Red cell and a Blue cell that both changed, the Red one to a state that
\* the opposite corner of its neighbourhood does not hold
C24_Witness ==
  /\ gen >= 1
  /\ \E r \in RowIdx, c \in ColIdx :
       /\ old[r][c] = RED
       /\ old[(r + 1) % Rows][(c + 1) % Cols] \in StateIdx \ {RED}
       /\ old[(r - 1) % Rows][(c - 1) % Cols] # old[(r + 1) % Rows][(c + 1) % Cols]
       /\ grid[r][c] = old[(r + 1) % Rows][(c + 1) % Cols]
  /\ \E r \in RowIdx, c \in ColIdx :
       /\ old[r][c] = BLUE
       /\ old[(r - 1) % Rows][(c - 1) % Cols] \in StateIdx \ {BLUE}
       /\ grid[r][c] = old[(r - 1) % Rows][(c - 1) % Cols]

LIME == 6

\* C25: a Lime cell has a nonzero coefficient at offset (0, 0) only, and it is
\* Lime again after update_grid whatever its neighbours hold; so a cell that is
\* Lime stays Lime in every later generation.
C25_LimeForever ==
  [][\A r \in RowIdx, c \in ColIdx :
       grid[r][c] = LIME =>
         /\ \A n \in 1 .. Len(offsets) :
              coeff(grid, r, c, n) = IF offsets[n] = <<0, 0>> THEN 1 ELSE 0
         /\ grid'[r][c] = LIME]_vars

\* a cell that has been Lime for two steps while a neighbour of another state
\* changed next to it
C25_Witness ==
  /\ gen >= 2
  /\ \E r \in RowIdx, c \in ColIdx :
       /\ old[r][c] = LIME
       /\ grid[r][c] = LIME
       /\ \E n \in NbrIdx :
            /\ nbr(old, r, c, n) # LIME
            /\ nbr(grid, r, c, n) # nbr(old, r, c, n)

\* a + b + c for the weight (a, b, c)
WeightSum(w) == w[1] + w[2] + w[3]

\* C26: for a cell of weight (a, b, c), total_filter is (a + b + c)^2; among
\* the 21 states it is 0 for Null only, so that only Null cells keep their own
\* weight, and the new weight of any other cell is the weighted average of its
\* neighbourhood, rounded, with each component in 0..2.
C26_TotalFilterSquare ==
  /\ \A s \in StateIdx :
       /\ sum_coeffs[s] = WeightSum(weights[s + 1]) * WeightSum(weights[s + 1])
       /\ sum_coeffs[s] = 0 <=> s = NULL_IDX
  /\ gen >= 1 =>
       \A r \in RowIdx, c \in ColIdx :
         LET tf == total_filter(old, r, c)
             nc == new_components(old, r, c)
         IN  /\ tf = WeightSum(WeightOf[old[r][c]]) * WeightSum(WeightOf[old[r][c]])
             /\ tf = 0 <=> old[r][c] = NULL_IDX
             /\ old[r][c] = NULL_IDX => nc = WeightOf[old[r][c]]
             /\ old[r][c] # NULL_IDX =>
                  \A k \in 1 .. 3 :
                    /\ nc[k] \in 0 .. 2
                    /\ 2 * Abs(weighted_sum(old, r, c, k) - tf * nc[k]) <= tf

\* a step from a grid with a Null cell and a cell whose weighted average is
\* not a whole number
C26_Witness ==
  /\ gen >= 1
  /\ \E r \in RowIdx, c \in ColIdx : old[r][c] = NULL_IDX /\ grid[r][c] = NULL_IDX
  /\ \E r \in RowIdx, c \in ColIdx :
       /\ old[r][c] \notin {NULL_IDX, NILL_IDX, NA_IDX}
       /\ \E k \in 1 .. 3 :
            weighted_sum(old, r, c, k) % total_filter(old, r, c) # 0
       /\ grid[r][c] = lookup_at(new_components(old, r, c))

\* C27: update_grid turns the grid whose every cell is N/A into the grid whose
\* every cell is Nill, and leaves the all-Nill grid and the all-Null grid
\* unchanged.
C27_UniformSpecial ==
  gen >= 1 =>
    /\ Uniform(old, NA_IDX) => Uniform(grid, NILL_IDX)
    /\ Uniform(old, NILL_IDX) => grid = old
    /\ Uniform(old, NULL_IDX) => grid = old

\* the all-N/A grid has been stepped and every cell is now Nill
C27_Witness ==
  /\ gen >= 1
  /\ Uniform(old, NA_IDX)
  /\ Uniform(grid, NILL_IDX)

====
